---- MODULE Spec2Model ----
(***************************************************************************)
(* Model of the assertion subsystem (src/src/assertion.rs) and the device  *)
(* handle (src/src/device.rs) of libfido2-rs.                               *)
(*                                                                         *)
(* The protocol engine (libfido2_sys) is an external C library.  Every     *)
(* value it returns (status codes, statement data, whether free nulls the  *)
(* pointer, the device's version bytes) is an input drawn from a small set.*)
(* Every engine call a wrapper makes is recorded, in order, in `calls`.    *)
(***************************************************************************)
EXTENDS Integers, Sequences, FiniteSets, TLC

VARIABLES
    wrapper,   \* the Rust value owning the assertion handle:
               \*   "uninit" (a fresh Assertion, crate-internal), "AssertionCreator",
               \*   "Assertion" (handed to the caller), "dropped"
    raw,       \* the engine-side state of the native fido_assert handle
    device,    \* the Device value and the engine-side state of its fido_dev handle
    history,   \* the operations performed so far, oldest first
    input,     \* what the most recent operation was given: the AssertionCreationData of
               \*   new; the public key of iter_verified and verify_one, with the answer
               \*   fido_assert_verify has for that key on each statement index
    calls,     \* the engine calls the most recent operation made, in order
    ret        \* what the most recent operation returned

vars == <<wrapper, raw, device, history, input, calls, ret>>

----------------------------------------------------------------------------
(* Bounds of the model *)

MaxCreds == 2      \* longest allowed-credential-id list
MaxStmts == 2      \* largest statement count a device reports
MaxReads == 2      \* reading operations performed on one value

----------------------------------------------------------------------------
(* Values *)

FIDO_OK == "FIDO_OK"
ErrCodes == {"FIDO_ERR_INVALID_ARGUMENT", "FIDO_ERR_INTERNAL"}
SigCodes == {"FIDO_ERR_INVALID_SIG", "FIDO_ERR_INVALID_ARGUMENT"}
Codes == {FIDO_OK} \cup ErrCodes
VerifyCodes == {FIDO_OK} \cup SigCodes

\* Option<T>
None == [some |-> FALSE, val |-> <<>>]
Some(v) == [some |-> TRUE, val |-> v]

\* Result<T> of an operation; a panic is the third outcome
Ok(v) == [kind |-> "Ok", code |-> FIDO_OK, val |-> v]
FidoError(err) == [kind |-> "Err", code |-> err, val |-> <<>>]
Panic(msg) == [kind |-> "panic", code |-> msg, val |-> <<>>]
NoRet == [kind |-> "none", code |-> "", val |-> <<>>]

\* byte strings the caller may pass
RpIds == {<<108, 104>>, <<101>>}
Hashes == {<<249, 100, 87>>, <<120>>}
CredIds == {<<10>>, <<20, 21>>}

RECURSIVE SeqsUpTo(_, _)
SeqsUpTo(S, n) ==
    IF n = 0 THEN {<<>>}
    ELSE LET shorter == SeqsUpTo(S, n - 1)
         IN shorter \cup {Append(s, x) : s \in {t \in shorter : Len(t) = n - 1}, x \in S}

\* bitflags contains(): (bits & flag) == flag, for a value `flag` of any width
RECURSIVE BitAnd(_, _)
BitAnd(a, b) ==
    IF a = 0 \/ b = 0 THEN 0
    ELSE 2 * BitAnd(a \div 2, b \div 2) + (IF a % 2 = 1 /\ b % 2 = 1 THEN 1 ELSE 0)
BitOr(a, b) == a + b - BitAnd(a, b)
BitNot8(a) == 255 - a

USER_PRESENCE == 1
USER_VERIFICATION == 2
AssertionOptions_all == BitOr(USER_PRESENCE, USER_VERIFICATION)
AssertionOptions_empty == 0
\* every value of the bitflags type AssertionOptions: subsets of the known bits
AssertionOptions == {b \in 0..255 : BitAnd(b, BitNot8(AssertionOptions_all)) = 0}
contains(bits, flag) == BitAnd(bits, flag) = flag

AssertionCreationData ==
    [allowed_credential_ids : {None} \cup {Some(l) : l \in SeqsUpTo(CredIds, MaxCreds)},
     client_data_hash : Hashes,
     relying_party_id : RpIds,
     options : AssertionOptions]

with_defaults(allowed_credential_ids, client_data_hash, relying_party_id) ==
    [allowed_credential_ids |-> allowed_credential_ids,
     client_data_hash |-> client_data_hash,
     relying_party_id |-> relying_party_id,
     options |-> AssertionOptions_empty]

NoInput == <<>>

----------------------------------------------------------------------------
(* The engine's side of a fido_assert handle, and the record of a call *)

RawInit ==
    [freed |-> 0,          \* times fido_assert_free was called on the handle
     stale |-> FALSE,      \* an engine call was made on the handle after its free
     populated |-> FALSE,  \* the device filled in the response
     cdh |-> None,         \* the stored client-data hash
     stmts |-> <<>>]       \* the statements of the response

Call(fn, arg, rc) == [fn |-> fn, arg |-> arg, rc |-> rc]

\* a machine: the handle and the calls made so far by the running operation
Emit(m, fn, arg, rc) ==
    [raw |-> [m.raw EXCEPT !.stale = m.raw.stale \/ m.raw.freed > 0],
     calls |-> Append(m.calls, Call(fn, arg, rc))]

Bool(b) == IF b THEN 1 ELSE 0

Step(m, res) == [m |-> m, res |-> res]
Check(rc) == IF rc = FIDO_OK THEN Ok(<<>>) ELSE FidoError(rc)

----------------------------------------------------------------------------
(* Private FFI setters.  resp[k] is the engine's answer to the k-th call of *)
(* the running operation.                                                  *)

Answer(m, resp) == resp[Len(m.calls) + 1]

set_relying_party_id(m, relying_party_id, resp) ==
    LET rc == Answer(m, resp)
    IN Step(Emit(m, "fido_assert_set_rp", relying_party_id, rc), Check(rc))

set_client_data_hash(m, client_data_hash, resp) ==
    LET rc == Answer(m, resp)
        m1 == Emit(m, "fido_assert_set_clientdata_hash", client_data_hash, rc)
    IN Step([m1 EXCEPT !.raw.cdh = IF rc = FIDO_OK THEN Some(client_data_hash) ELSE @],
            Check(rc))

add_allowed_credential_id(m, id, resp) ==
    LET rc == Answer(m, resp)
    IN Step(Emit(m, "fido_assert_allow_cred", id, rc), Check(rc))

\* set_options with the two flags passed in the other order
set_options_swapped(m, options, resp) ==
    LET rc == Answer(m, resp)
    IN Step(Emit(m, "fido_assert_set_options",
                 <<Bool(contains(options, USER_VERIFICATION)),
                   Bool(contains(options, USER_PRESENCE))>>, rc),
            Check(rc))

set_options(m, options, resp) ==
    LET rc == Answer(m, resp)
    IN Step(Emit(m, "fido_assert_set_options",
                 <<Bool(contains(options, USER_PRESENCE)),
                   Bool(contains(options, USER_VERIFICATION))>>, rc),
            Check(rc))

----------------------------------------------------------------------------
(* Drop for Assertion: free, then assert the engine nulled the pointer *)

\* a drop run on two owners of the same pointer: the handle is freed twice
Assertion_drop_twice(m, nulls) ==
    LET free == Call("fido_assert_free", <<>>, IF nulls THEN "NULL" ELSE "NOT_NULL")
        m1 == [raw |-> [m.raw EXCEPT !.freed = @ + 2, !.stale = TRUE],
               calls |-> m.calls \o <<free, free>>]
    IN Step(m1, IF nulls THEN Ok(<<>>) ELSE Panic("assertion.is_null()"))

Assertion_drop(m, nulls) ==
    LET m1 == [raw |-> [m.raw EXCEPT !.freed = @ + 1,
                                     !.stale = @ \/ m.raw.freed > 0],
               calls |-> Append(m.calls,
                                Call("fido_assert_free", <<>>,
                                     IF nulls THEN "NULL" ELSE "NOT_NULL"))]
    IN Step(m1, IF nulls THEN Ok(<<>>) ELSE Panic("assertion.is_null()"))

----------------------------------------------------------------------------
(* AssertionCreator *)

\* add_each walking the list from its end
RECURSIVE add_each_reversed(_, _, _, _)
add_each_reversed(m, allowed, k, resp) ==
    IF k > Len(allowed) THEN Step(m, Ok(<<>>))
    ELSE LET s == add_allowed_credential_id(m, allowed[Len(allowed) + 1 - k], resp)
         IN IF s.res.kind = "Err" THEN s ELSE add_each_reversed(s.m, allowed, k + 1, resp)

\* add_each without the `?`: a failed add does not end the loop
RECURSIVE add_each_unchecked(_, _, _, _)
add_each_unchecked(m, allowed, k, resp) ==
    IF k > Len(allowed) THEN Step(m, Ok(<<>>))
    ELSE LET s == add_allowed_credential_id(m, allowed[k], resp)
         IN add_each_unchecked(s.m, allowed, k + 1, resp)

\* for allowed in allowed { assertion.add_allowed_credential_id(allowed)?; }
RECURSIVE add_each(_, _, _, _)
add_each(m, allowed, k, resp) ==
    IF k > Len(allowed) THEN Step(m, Ok(<<>>))
    ELSE LET s == add_allowed_credential_id(m, allowed[k], resp)
         IN IF s.res.kind = "Err" THEN s ELSE add_each(s.m, allowed, k + 1, resp)

\* the four steps of new, each ending in `?`
new_setters(m, d, resp) ==
    LET s1 == set_relying_party_id(m, d.relying_party_id, resp) IN
    IF s1.res.kind = "Err" THEN s1 ELSE
    LET s2 == set_client_data_hash(s1.m, d.client_data_hash, resp) IN
    IF s2.res.kind = "Err" THEN s2 ELSE
    LET s3 == IF d.allowed_credential_ids.some
              THEN add_each(s2.m, d.allowed_credential_ids.val, 1, resp)
              ELSE Step(s2.m, Ok(<<>>)) IN
    IF s3.res.kind = "Err" THEN s3 ELSE
    LET s4 == set_options(s3.m, d.options, resp) IN
    s4

\* new handing back the Assertion itself, not wrapped
AssertionCreator_new_unwrapped(m, d, resp) ==
    LET s == new_setters(m, d, resp)
    IN IF s.res.kind = "Err" THEN s ELSE Step(s.m, Ok(<<"Assertion">>))

\* new: Ok(AssertionCreator(assertion)) once every step succeeded
AssertionCreator_new(m, d, resp) ==
    LET s == new_setters(m, d, resp)
    IN IF s.res.kind = "Err" THEN s ELSE Step(s.m, Ok(<<"AssertionCreator">>))

\* into_inner: the contained Assertion, moved out
into_inner(w) == IF w = "AssertionCreator" THEN "Assertion" ELSE w

----------------------------------------------------------------------------
(* The populated response: what the engine holds after the device answered *)

\* public keys a caller may verify against: credential type (COSE algorithm) and key
Keys == {[cred_type |-> -7, ptr |-> 1], [cred_type |-> -257, ptr |-> 2]}

\* the engine's statement at an index; absent fields are NULL pointers
FullStmt(i) ==
    [authdata |-> Some(<<1, i>>), hmac_secret |-> Some(<<2, i>>), sig |-> Some(<<3, i>>),
     user_id |-> Some(<<4, i>>), user_name |-> Some(<<5, i>>),
     user_display_name |-> Some(<<6, i>>), user_icon |-> Some(<<7, i>>)]
BareStmt(i) ==
    [authdata |-> Some(<<1, i, i>>), hmac_secret |-> None, sig |-> Some(<<3, i, i>>),
     user_id |-> None, user_name |-> None, user_display_name |-> None, user_icon |-> None]
NullStmt ==
    [authdata |-> None, hmac_secret |-> None, sig |-> None,
     user_id |-> None, user_name |-> None, user_display_name |-> None, user_icon |-> None]

\* responses of n statements: full and bare statements alternating, from either one
Responses(n) ==
    {[k \in 1..n |-> IF (k + p) % 2 = 0 THEN FullStmt(k - 1) ELSE BareStmt(k - 1)] : p \in 0..1}

\* the engine answers NULL for an index past the last statement
EngineStmt(r, i) == IF i >= 0 /\ i < Len(r.stmts) THEN r.stmts[i + 1] ELSE NullStmt

----------------------------------------------------------------------------
(* Assertion: statement reading *)

\* ptr.as_ref().map(|ptr| slice::from_raw_parts(ptr, len(..))): the length accessor
\* is called only for a non-null pointer (its usize conversion cannot fail)
read_slice(m, ptr_fn, len_fn, arg, blob) ==
    LET m1 == Emit(m, ptr_fn, arg, IF blob.some THEN "PTR" ELSE "NULL")
    IN IF blob.some
       THEN Step(Emit(m1, len_fn, arg, "LEN"), Some(SubSeq(blob.val, 1, Len(blob.val))))
       ELSE Step(m1, None)

\* ptr.as_ref().map(|ptr| CStr::from_ptr(ptr))
read_cstr(m, fn, arg, str) ==
    Step(Emit(m, fn, arg, IF str.some THEN "PTR" ELSE "NULL"), str)

\* len(): fido_assert_count
len(m) == Step(Emit(m, "fido_assert_count", <<>>, "COUNT"), Len(m.raw.stmts))

\* the closure of iter(): Statement i, read through the per-index accessors
statement_at(m, i, client_data_hash) ==
    LET st == EngineStmt(m.raw, i)
        a == read_slice(m, "fido_assert_authdata_ptr", "fido_assert_authdata_len", <<i>>, st.authdata)
    IN IF ~a.res.some THEN Step(a.m, Panic("unwrap")) ELSE
    LET h == read_slice(a.m, "fido_assert_hmac_secret_ptr", "fido_assert_hmac_secret_len", <<i>>, st.hmac_secret)
        s == read_slice(h.m, "fido_assert_sig_ptr", "fido_assert_sig_len", <<i>>, st.sig)
    IN IF ~s.res.some THEN Step(s.m, Panic("unwrap")) ELSE
    LET u == read_slice(s.m, "fido_assert_user_id_ptr", "fido_assert_user_id_len", <<i>>, st.user_id)
        n == read_cstr(u.m, "fido_assert_user_name", <<i>>, st.user_name)
        d == read_cstr(n.m, "fido_assert_user_display_name", <<i>>, st.user_display_name)
        c == read_cstr(d.m, "fido_assert_user_icon", <<i>>, st.user_icon)
    IN Step(c.m, Ok(<<[auth_data |-> a.res.val,
                       client_data_hash |-> client_data_hash,
                       hmac_secret |-> h.res,
                       signature |-> s.res.val,
                       user_id |-> u.res,
                       user_name |-> n.res,
                       user_display_name |-> d.res,
                       user_image_uri |-> c.res]>>))

\* what iter() does before it returns the lazy iterator: the shared client-data
\* hash and the range 0..self.len()
iter_begin(m) ==
    LET c == read_slice(m, "fido_assert_clientdata_hash_ptr",
                        "fido_assert_clientdata_hash_len", <<>>, m.raw.cdh)
    IN IF ~c.res.some THEN Step(c.m, Panic("unwrap")) ELSE
       LET n == len(c.m) IN Step(n.m, Ok(<<c.res.val, n.res>>))

\* the range walked from its last index down
iter_range_reversed(n) == [k \in 1..n |-> n - k]

\* the range of indices iter() maps over: 0..len
iter_range(n) == [k \in 1..n |-> k - 1]

\* iter(), consumed to its end
RECURSIVE iter_rest(_, _, _, _)
iter_rest(m, range, client_data_hash, acc) ==
    IF range = <<>> THEN Step(m, Ok(acc))
    ELSE LET s == statement_at(m, Head(range), client_data_hash)
         IN IF s.res.kind = "panic" THEN s
            ELSE iter_rest(s.m, Tail(range), client_data_hash, acc \o s.res.val)

iter(m) ==
    LET b == iter_begin(m)
    IN IF b.res.kind = "panic" THEN b
       ELSE iter_rest(b.m, iter_range(b.res.val[2]), b.res.val[1], <<>>)

\* the closure of iter_verified(): the statement, then fido_assert_verify on its index
verified_at(m, i, client_data_hash, public_key, verdict) ==
    LET s == statement_at(m, i, client_data_hash)
    IN IF s.res.kind = "panic" THEN s ELSE
       LET rc == verdict[i]
       IN Step(Emit(s.m, "fido_assert_verify", <<i, public_key.cred_type, public_key.ptr>>, rc),
               Ok(<<[statement |-> s.res.val[1], result |-> Check(rc)]>>))

\* iter_verified ending at the first statement that fails to verify
RECURSIVE iter_verified_until_err(_, _, _, _, _, _)
iter_verified_until_err(m, range, client_data_hash, public_key, verdict, acc) ==
    IF range = <<>> THEN Step(m, Ok(acc))
    ELSE LET v == verified_at(m, Head(range), client_data_hash, public_key, verdict)
         IN IF v.res.kind = "panic" THEN v
            ELSE IF v.res.val[1].result.kind = "Err" THEN Step(v.m, Ok(acc \o v.res.val))
            ELSE iter_verified_until_err(v.m, Tail(range), client_data_hash, public_key,
                                         verdict, acc \o v.res.val)

\* iter_verified(public_key), consumed to its end
RECURSIVE iter_verified_rest(_, _, _, _, _, _)
iter_verified_rest(m, range, client_data_hash, public_key, verdict, acc) ==
    IF range = <<>> THEN Step(m, Ok(acc))
    ELSE LET v == verified_at(m, Head(range), client_data_hash, public_key, verdict)
         IN IF v.res.kind = "panic" THEN v
            ELSE iter_verified_rest(v.m, Tail(range), client_data_hash, public_key, verdict,
                                    acc \o v.res.val)

iter_verified(m, public_key, verdict) ==
    LET b == iter_begin(m)
    IN IF b.res.kind = "panic" THEN b
       ELSE iter_verified_rest(b.m, iter_range(b.res.val[2]), b.res.val[1], public_key,
                               verdict, <<>>)

\* the whole iterator is evaluated before the answer is given
RECURSIVE any_is_ok_eager(_, _, _, _, _, _)
any_is_ok_eager(m, range, client_data_hash, public_key, verdict, found) ==
    IF range = <<>> THEN Step(m, Ok(<<found>>))
    ELSE LET v == verified_at(m, Head(range), client_data_hash, public_key, verdict)
         IN IF v.res.kind = "panic" THEN v
            ELSE any_is_ok_eager(v.m, Tail(range), client_data_hash, public_key, verdict,
                                 found \/ v.res.val[1].result.kind = "Ok")
any_is_ok_all(m, range, client_data_hash, public_key, verdict) ==
    any_is_ok_eager(m, range, client_data_hash, public_key, verdict, FALSE)

\* Iterator::any(|(_, result)| result.is_ok()): stops at the first item that is Ok
RECURSIVE any_is_ok(_, _, _, _, _)
any_is_ok(m, range, client_data_hash, public_key, verdict) ==
    IF range = <<>> THEN Step(m, Ok(<<FALSE>>))
    ELSE LET v == verified_at(m, Head(range), client_data_hash, public_key, verdict)
         IN IF v.res.kind = "panic" THEN v
            ELSE IF v.res.val[1].result.kind = "Ok" THEN Step(v.m, Ok(<<TRUE>>))
            ELSE any_is_ok(v.m, Tail(range), client_data_hash, public_key, verdict)

verify_one(m, public_key, verdict) ==
    LET b == iter_begin(m)
    IN IF b.res.kind = "panic" THEN b
       ELSE any_is_ok(b.m, iter_range(b.res.val[2]), b.res.val[1], public_key, verdict)

----------------------------------------------------------------------------
(* Device *)

\* capability bits of the engine (fido/param.h), each cast `as u8`
FIDO_CAP_WINK == 1
FIDO_CAP_CBOR == 4
FIDO_CAP_NMSG == 8
AsU8(x) == x % 256
WINK == AsU8(FIDO_CAP_WINK)
CBOR == AsU8(FIDO_CAP_CBOR)
NMSG == AsU8(FIDO_CAP_NMSG)
CTAPHIDCapabilities_all == BitOr(BitOr(WINK, CBOR), NMSG)

\* bitflags from_bits_truncate(): unknown bits dropped
from_bits_truncate(bits) == Some(BitAnd(bits, CTAPHIDCapabilities_all))

\* bitflags from_bits(): None when a bit outside the declared flags is set
from_bits(bits) ==
    IF BitAnd(bits, BitNot8(CTAPHIDCapabilities_all)) = 0 THEN Some(bits) ELSE None

\* version bytes a device may report; the flag byte ranges over every u8
VersionBytes == {2, 255}
U8 == 0..255
DeviceInfos ==
    [protocol : VersionBytes, major : VersionBytes, minor : VersionBytes,
     build : VersionBytes, flags : U8]

DeviceInit ==
    [state |-> "unopened",  \* "unopened", "open" (a Device value exists), "dropped"
     info |-> [protocol |-> 0, major |-> 0, minor |-> 0, build |-> 0, flags |-> 0],
     closed |-> 0,          \* times fido_dev_close was called
     freed |-> 0,           \* times fido_dev_free was called
     stale |-> FALSE]       \* an engine call was made on the handle after its free

DevEmit(m, fn, rc) ==
    [dev |-> [m.dev EXCEPT !.stale = m.dev.stale \/ m.dev.freed > 0],
     calls |-> Append(m.calls, Call(fn, <<>>, rc))]

ctap_hid_info(m) ==
    LET m1 == DevEmit(m, "fido_dev_protocol", "U8")
        m2 == DevEmit(m1, "fido_dev_major", "U8")
        m3 == DevEmit(m2, "fido_dev_minor", "U8")
        m4 == DevEmit(m3, "fido_dev_build", "U8")
        m5 == DevEmit(m4, "fido_dev_flags", "U8")
        flags == from_bits(m.dev.info.flags)
    IN IF ~flags.some THEN Step(m5, Panic("Invalid capability flags"))
       ELSE Step(m5, Ok(<<[protocol |-> m.dev.info.protocol,
                           major |-> m.dev.info.major,
                           minor |-> m.dev.info.minor,
                           build |-> m.dev.info.build,
                           capabilities |-> flags.val]>>))

\* a drop that gives up when close fails
Device_drop_close_checked(m, close_rc, nulls) ==
    LET m1 == DevEmit(m, "fido_dev_close", close_rc)
        m2 == [dev |-> [m1.dev EXCEPT !.closed = @ + 1]] @@ m1
        m3 == DevEmit(m2, "fido_dev_free", IF nulls THEN "NULL" ELSE "NOT_NULL")
        m4 == [dev |-> [m3.dev EXCEPT !.freed = @ + 1]] @@ m3
    IN IF close_rc # FIDO_OK THEN Step(m2, Panic("close failed"))
       ELSE Step(m4, IF nulls THEN Ok(<<>>) ELSE Panic("Device was not freed"))

\* Drop for Device: close (its result discarded), free, assert the pointer is null
Device_drop(m, close_rc, nulls) ==
    LET m1 == DevEmit(m, "fido_dev_close", close_rc)
        m2 == [dev |-> [m1.dev EXCEPT !.closed = @ + 1]] @@ m1
        m3 == DevEmit(m2, "fido_dev_free", IF nulls THEN "NULL" ELSE "NOT_NULL")
        m4 == [dev |-> [m3.dev EXCEPT !.freed = @ + 1]] @@ m3
    IN Step(m4, IF nulls THEN Ok(<<>>) ELSE Panic("Device was not freed"))

----------------------------------------------------------------------------
(* The state machine *)

\* the most recent operation
op == IF history = <<>> THEN "init" ELSE history[Len(history)]

\* the reading operations performed so far
ReadingOps == {"len", "iter", "iter_verified", "verify_one", "ctap_hid_info"}
nreads == Cardinality({k \in 1..Len(history) : history[k] \in ReadingOps})

Done(name) == history' = Append(history, name)

Init ==
    /\ wrapper = "uninit"
    /\ raw = RawInit
    /\ device = DeviceInit
    /\ history = <<>>
    /\ input = NoInput
    /\ calls = <<>>
    /\ ret = NoRet

\* the engine calls new makes when none fails: as many answers are drawn
SettersOf(d) ==
    3 + (IF d.allowed_credential_ids.some THEN Len(d.allowed_credential_ids.val) ELSE 0)

\* AssertionCreator::new(assertion, data): on Err the assertion, owned by the
\* call, is dropped before the error is returned
New ==
    /\ wrapper = "uninit"
    /\ \E d \in AssertionCreationData, nulls \in BOOLEAN :
       \E resp \in [1..SettersOf(d) -> Codes] :
         LET s == AssertionCreator_new([raw |-> raw, calls |-> <<>>], d, resp)
             f == Assertion_drop(s.m, nulls)
         IN /\ input' = d
            /\ Done("new")
            /\ IF s.res.kind = "Ok"
               THEN /\ wrapper' = s.res.val[1]
                    /\ raw' = s.m.raw
                    /\ calls' = s.m.calls
                    /\ ret' = s.res
               ELSE /\ wrapper' = "dropped"
                    /\ raw' = f.m.raw
                    /\ calls' = f.m.calls
                    /\ ret' = IF f.res.kind = "panic" THEN f.res ELSE s.res
    /\ UNCHANGED device

\* a panic is unwinding the caller: nothing but the drops may follow
Unwinding == ret.kind = "panic"

\* the caller drops the AssertionCreator without handing it to a device
DropCreator ==
    /\ wrapper = "AssertionCreator"
    /\ \E nulls \in BOOLEAN :
         LET f == Assertion_drop([raw |-> raw, calls |-> <<>>], nulls)
         IN /\ wrapper' = "dropped"
            /\ raw' = f.m.raw
            /\ calls' = f.m.calls
            /\ ret' = f.res
    /\ Done("drop_creator")
    /\ input' = NoInput
    /\ UNCHANGED device

\* the device-interaction step takes the AssertionCreator by value, lets the engine
\* fill the handle (through raw_mut) and, on success, returns into_inner(); on an
\* engine error the creator is dropped and the error returned
request_assertion(m, rc, stmts, nulls) ==
    LET m1 == Emit(m, "fido_dev_get_assert", <<>>, rc)
    IN IF rc = FIDO_OK
       THEN Step([m1 EXCEPT !.raw.populated = TRUE, !.raw.stmts = stmts],
                 Ok(<<into_inner("AssertionCreator")>>))
       ELSE LET f == Assertion_drop(m1, nulls)
            IN Step(f.m, IF f.res.kind = "panic" THEN f.res ELSE FidoError(rc))

RequestAssertion ==
    /\ wrapper = "AssertionCreator"
    /\ \E rc \in Codes, n \in 0..MaxStmts, nulls \in BOOLEAN :
         \E stmts \in Responses(n) :
            LET s == request_assertion([raw |-> raw, calls |-> <<>>], rc, stmts, nulls)
            IN /\ wrapper' = IF s.res.kind = "Ok" THEN s.res.val[1] ELSE "dropped"
               /\ raw' = s.m.raw
               /\ calls' = s.m.calls
               /\ ret' = s.res
    /\ Done("request_assertion")
    /\ input' = NoInput
    /\ UNCHANGED device

\* a statement-reading method of Assertion, called by the holder of the value
Reading(name, arg, s) ==
    /\ wrapper = "Assertion"
    /\ ~Unwinding
    /\ nreads < MaxReads
    /\ Done(name)
    /\ raw' = s.m.raw
    /\ calls' = s.m.calls
    /\ ret' = s.res
    /\ input' = arg
    /\ UNCHANGED <<wrapper, device>>

Here == [raw |-> raw, calls |-> <<>>]

LenOp ==
    LET n == len(Here) IN Reading("len", NoInput, Step(n.m, Ok(<<n.res>>)))

IterOp == Reading("iter", NoInput, iter(Here))

\* the answers fido_assert_verify may give for one key on the statements held
Verdicts == [0..(Len(raw.stmts) - 1) -> VerifyCodes]
Verifying(public_key, verdict) == [public_key |-> public_key, verdict |-> verdict]

IterVerifiedOp ==
    \E public_key \in Keys, verdict \in Verdicts :
        Reading("iter_verified", Verifying(public_key, verdict),
                iter_verified(Here, public_key, verdict))

VerifyOneOp ==
    \E public_key \in Keys, verdict \in Verdicts :
        Reading("verify_one", Verifying(public_key, verdict),
                verify_one(Here, public_key, verdict))

\* the Assertion goes out of scope
DropAssertion ==
    /\ wrapper = "Assertion"
    /\ \E nulls \in BOOLEAN :
         LET f == Assertion_drop(Here, nulls)
         IN /\ wrapper' = "dropped"
            /\ raw' = f.m.raw
            /\ calls' = f.m.calls
            /\ ret' = f.res
    /\ Done("drop_assertion")
    /\ input' = NoInput
    /\ UNCHANGED device

Next ==
    \/ New
    \/ DropCreator
    \/ RequestAssertion
    \/ LenOp
    \/ IterOp
    \/ IterVerifiedOp
    \/ VerifyOneOp
    \/ DropAssertion

Spec == Init /\ [][Next]_vars

----------------------------------------------------------------------------
(* The device handle's state machine *)

\* the device-open collaborator hands out a Device over an open connection
Open ==
    /\ device.state = "unopened"
    /\ \E info \in DeviceInfos :
         device' = [device EXCEPT !.state = "open", !.info = info]
    /\ Done("open")
    /\ calls' = <<>>
    /\ ret' = Ok(<<>>)
    /\ UNCHANGED <<wrapper, raw, input>>

CtapHidInfo ==
    /\ device.state = "open"
    /\ ~Unwinding
    /\ nreads < MaxReads
    /\ LET s == ctap_hid_info([dev |-> device, calls |-> <<>>])
       IN /\ device' = s.m.dev
          /\ calls' = s.m.calls
          /\ ret' = s.res
    /\ Done("ctap_hid_info")
    /\ UNCHANGED <<wrapper, raw, input>>

\* the Device goes out of scope (also while a panic unwinds its owner)
DropDevice ==
    /\ device.state = "open"
    /\ \E close_rc \in Codes, nulls \in BOOLEAN :
         LET s == Device_drop([dev |-> device, calls |-> <<>>], close_rc, nulls)
         IN /\ device' = [s.m.dev EXCEPT !.state = "dropped"]
            /\ calls' = s.m.calls
            /\ ret' = s.res
    /\ Done("drop_device")
    /\ UNCHANGED <<wrapper, raw, input>>

DeviceNext ==
    \/ Open
    \/ CtapHidInfo
    \/ DropDevice

DeviceSpec == Init /\ [][DeviceNext]_vars
----------------------------------------------------------------------------
(* Properties of AssertionCreator::new *)

Setters == {"fido_assert_set_rp", "fido_assert_set_clientdata_hash",
            "fido_assert_allow_cred", "fido_assert_set_options"}

\* the allowed-credential ids of creation data d, none when the list is None
IdsOf(d) == IF d.allowed_credential_ids.some THEN d.allowed_credential_ids.val ELSE <<>>

\* the k-th step of new for creation data d: the engine function and its argument
\* (the argument of the last step, the option flags, is the subject of C10)
StepFn(d, k) ==
    IF k = 1 THEN "fido_assert_set_rp"
    ELSE IF k = 2 THEN "fido_assert_set_clientdata_hash"
    ELSE IF k <= 2 + Len(IdsOf(d)) THEN "fido_assert_allow_cred"
    ELSE "fido_assert_set_options"
StepArg(d, k) ==
    IF k = 1 THEN d.relying_party_id
    ELSE IF k = 2 THEN d.client_data_hash
    ELSE IF k <= 2 + Len(IdsOf(d)) THEN IdsOf(d)[k - 2]
    ELSE calls[k].arg
StepIsCall(d, k) ==
    /\ k <= Len(calls)
    /\ calls[k].fn = StepFn(d, k)
    /\ calls[k].fn # "fido_assert_set_options" => calls[k].arg = StepArg(d, k)

SetterCalls == {k \in 1..Len(calls) : calls[k].fn \in Setters}
FailedSetters == {k \in SetterCalls : calls[k].rc # FIDO_OK}
FreeCalls == {k \in 1..Len(calls) : calls[k].fn = "fido_assert_free"}

\* C1: when every setter new calls succeeds, the engine calls of new are, in this
\* order, set relying-party id once, set client-data hash once, add each allowed
\* credential id once in the list's order (none for None or an empty list), set
\* options once and last; new returns Ok, an AssertionCreator owns the handle and
\* nothing was freed.
C1_NewOrder ==
    (op = "new" /\ FailedSetters = {}) =>
        /\ Len(calls) = 3 + Len(IdsOf(input))
        /\ \A k \in 1..(3 + Len(IdsOf(input))) : StepIsCall(input, k) /\ calls[k].rc = FIDO_OK
        /\ ret = Ok(<<"AssertionCreator">>)
        /\ wrapper = "AssertionCreator"
        /\ raw.freed = 0

C1_Witness ==
    /\ op = "new"
    /\ ret.kind = "Ok"
    /\ input.allowed_credential_ids.some
    /\ Len(input.allowed_credential_ids.val) = 2
    /\ input.allowed_credential_ids.val[1] # input.allowed_credential_ids.val[2]
    /\ calls[3].arg = input.allowed_credential_ids.val[1]
    /\ calls[4].arg = input.allowed_credential_ids.val[2]

\* C2: when a step of new is answered with a non-success code, new stops at that
\* step: the steps before it were all called (and succeeded), no setter is called
\* after it, the handle is freed exactly once, no AssertionCreator exists, and the
\* error returned carries that step's code (the one other outcome is the abort of
\* the drop when the engine leaves the pointer non-null).
C2_NewFailsAtStep ==
    (op = "new" /\ FailedSetters # {}) =>
        \E k \in FailedSetters :
            /\ FailedSetters = {k}
            /\ SetterCalls = 1..k
            /\ \A j \in 1..k : StepIsCall(input, j)
            /\ Len(calls) = k + 1
            /\ FreeCalls = {k + 1}
            /\ raw.freed = 1
            /\ wrapper = "dropped"
            /\ ret.kind # "Ok"
            /\ calls[k + 1].rc = "NULL" => ret = FidoError(calls[k].rc)
            /\ calls[k + 1].rc # "NULL" => ret.kind = "panic"

C2_Witness ==
    /\ op = "new"
    /\ Len(calls) = 5
    /\ calls[3].fn = "fido_assert_allow_cred" /\ calls[3].rc = FIDO_OK
    /\ calls[4].fn = "fido_assert_allow_cred" /\ calls[4].rc = "FIDO_ERR_INTERNAL"
    /\ calls[5].fn = "fido_assert_free"
    /\ Len(IdsOf(input)) = 2
    /\ ret = FidoError("FIDO_ERR_INTERNAL")

\* C10: whichever of the four flag combinations the creation data carries, new
\* hands the engine the pair (USER_PRESENCE is set, USER_VERIFICATION is set), and
\* the outcome of that step is the engine's answer alone; data made by
\* with_defaults carries no flag, so the engine receives (false, false).
C10_OptionsForwarded ==
    op = "new" =>
        \A k \in 1..Len(calls) :
            calls[k].fn = "fido_assert_set_options" =>
                /\ calls[k].arg = <<IF input.options \in {1, 3} THEN 1 ELSE 0,
                                    IF input.options \in {2, 3} THEN 1 ELSE 0>>
                /\ calls[k].rc = FIDO_OK => ret.kind = "Ok"
                /\ input = with_defaults(input.allowed_credential_ids,
                                         input.client_data_hash,
                                         input.relying_party_id)
                     => calls[k].arg = <<0, 0>>

C10_Witness ==
    /\ op = "new"
    /\ ret.kind = "Ok"
    /\ input = with_defaults(None, input.client_data_hash, input.relying_party_id)
    /\ calls[3] = Call("fido_assert_set_options", <<0, 0>>, FIDO_OK)
----------------------------------------------------------------------------
(* Properties of statement reading *)

\* the engine-reported number of statements
N == Len(raw.stmts)

\* the calls of the running operation that take a statement index, and their indices
IndexedCalls == {k \in 1..Len(calls) : calls[k].arg # <<>>}
IndexOf(k) == calls[k].arg[1]
VerifyCalls == {k \in 1..Len(calls) : calls[k].fn = "fido_assert_verify"}

\* indices never decrease along the calls
InIndexOrder == \A j, k \in IndexedCalls : j < k => IndexOf(j) <= IndexOf(k)

\* the Statement a caller must see for engine index i
StatementOf(i) ==
    [auth_data |-> raw.stmts[i + 1].authdata.val,
     client_data_hash |-> raw.cdh.val,
     hmac_secret |-> raw.stmts[i + 1].hmac_secret,
     signature |-> raw.stmts[i + 1].sig.val,
     user_id |-> raw.stmts[i + 1].user_id,
     user_name |-> raw.stmts[i + 1].user_name,
     user_display_name |-> raw.stmts[i + 1].user_display_name,
     user_image_uri |-> raw.stmts[i + 1].user_icon]

\* the result of a verification answered with code rc
ResultOf(rc) == IF rc = "FIDO_OK" THEN Ok(<<>>) ELSE FidoError(rc)

IterYields ==
    op = "iter" =>
        /\ ret.kind = "Ok"
        /\ Len(ret.val) = N
        /\ \A i \in 0..(N - 1) : ret.val[i + 1] = StatementOf(i)
        /\ {IndexOf(k) : k \in IndexedCalls} = 0..(N - 1)
        /\ InIndexOrder

\* C3: every invocation of iter on a populated Assertion of N statements, the first
\* and any later one alike, yields exactly N statements, the i-th being the
\* engine's statement i, read index by index in increasing order; iter changes
\* nothing the engine holds, so a later invocation yields the same sequence.
C3_IterYieldsAll ==
    /\ []IterYields
    /\ [][op' = "iter" => raw' = raw]_vars

C3_Witness ==
    /\ Len(history) >= 2
    /\ history[Len(history)] = "iter"
    /\ history[Len(history) - 1] = "iter"
    /\ N = 2
    /\ Len(ret.val) = 2
    /\ ret.val[1] # ret.val[2]

\* C4: iter_verified, consumed to its end, calls fido_assert_verify exactly once
\* for each index 0..N-1, in increasing order and with the caller's key, whichever
\* indices fail; item i is statement i with Ok when the engine answered FIDO_OK
\* for index i and otherwise with the error carrying the engine's code for index i.
C4_IterVerifiedAll ==
    op = "iter_verified" =>
        /\ ret.kind = "Ok"
        /\ Len(ret.val) = N
        /\ Cardinality(VerifyCalls) = N
        /\ \A i \in 0..(N - 1) :
              /\ \E k \in VerifyCalls :
                    /\ calls[k].arg = <<i, input.public_key.cred_type, input.public_key.ptr>>
                    /\ calls[k].rc = input.verdict[i]
              /\ ret.val[i + 1].statement = StatementOf(i)
              /\ ret.val[i + 1].result = ResultOf(input.verdict[i])
        /\ InIndexOrder

C4_Witness ==
    /\ op = "iter_verified"
    /\ N = 2
    /\ input.verdict[0] = "FIDO_ERR_INVALID_SIG"
    /\ input.verdict[1] = "FIDO_OK"
    /\ ret.val[1].result = FidoError("FIDO_ERR_INVALID_SIG")
    /\ ret.val[2].result.kind = "Ok"

\* the indices the engine verifies for the key given
Verifying_ok == {i \in 0..(N - 1) : input.verdict[i] = "FIDO_OK"}
FirstOk == CHOOSE j \in Verifying_ok : \A i \in Verifying_ok : j <= i

\* C5: verify_one returns true exactly when some index 0..N-1 verifies against the
\* key (false for N = 0 and when every index fails); it verifies indices in
\* increasing order and none after the first that succeeds.
C5_VerifyOne ==
    op = "verify_one" =>
        /\ ret.kind = "Ok"
        /\ ret.val = <<Verifying_ok # {}>>
        /\ {IndexOf(k) : k \in VerifyCalls} =
              IF Verifying_ok = {} THEN 0..(N - 1) ELSE 0..FirstOk
        /\ Cardinality(VerifyCalls) =
              IF Verifying_ok = {} THEN N ELSE FirstOk + 1
        /\ \A k \in IndexedCalls : Verifying_ok # {} => IndexOf(k) <= FirstOk
        /\ InIndexOrder

C5_Witness ==
    /\ op = "verify_one"
    /\ N = 2
    /\ input.verdict[0] = "FIDO_OK"
    /\ ret.val = <<TRUE>>
    /\ Cardinality(VerifyCalls) = 1
----------------------------------------------------------------------------
(* Properties of the handle's lifecycle *)

\* C6: on every path of an assertion handle the engine's free is called exactly
\* once, and only when the owning value is dropped: moving the handle into the
\* AssertionCreator or out of it frees nothing; free is the last engine call ever
\* made on the handle; and the drop panics exactly when free left the pointer
\* non-null.
C6_FreedOnce ==
    /\ raw.freed = IF wrapper = "dropped" THEN 1 ELSE 0
    /\ ~raw.stale
    /\ Cardinality(FreeCalls) <= 1
    /\ wrapper = "dropped" <=> FreeCalls = {Len(calls)}
    /\ wrapper # "dropped" => FreeCalls = {}
    /\ FreeCalls # {} => (ret.kind = "panic" <=> calls[Len(calls)].rc # "NULL")
    /\ (op \in {"new", "request_assertion"} /\ ret.kind = "Ok") => raw.freed = 0

C6_Witness ==
    /\ history = <<"new", "request_assertion", "iter_verified", "drop_assertion">>
    /\ wrapper = "dropped"
    /\ raw.freed = 1
    /\ ret.kind = "Ok"

StatementReads == {"len", "iter", "iter_verified", "verify_one"}
Rank(w) ==
    IF w = "uninit" THEN 0
    ELSE IF w = "AssertionCreator" THEN 1
    ELSE IF w = "Assertion" THEN 2
    ELSE 3

----------------------------------------------------------------------------
(* Properties of Device *)

\* C7: dropping a Device calls the engine's close once and then its free once,
\* whatever close answered; the answer of close reaches nobody; the drop panics
\* exactly when free left the pointer non-null.
C7_CloseThenFree ==
    /\ device.closed = (IF device.state = "dropped" THEN 1 ELSE 0)
    /\ device.freed = (IF device.state = "dropped" THEN 1 ELSE 0)
    /\ ~device.stale
    /\ op = "drop_device" =>
          /\ Len(calls) = 2
          /\ calls[1].fn = "fido_dev_close"
          /\ calls[2].fn = "fido_dev_free"
          /\ ret.kind # "Err"
          /\ ret.kind = "panic" <=> calls[2].rc # "NULL"

C7_Witness ==
    /\ op = "drop_device"
    /\ calls[1].fn = "fido_dev_close"
    /\ calls[1].rc = "FIDO_ERR_INTERNAL"
    /\ calls[2] = Call("fido_dev_free", <<>>, "NULL")
    /\ ret.kind = "Ok"

\* bit k (a power of two) of byte b
HasBit(b, k) == (b \div k) % 2 = 1

\* the bits of a byte
BitsOf(b) == {k \in {1, 2, 4, 8, 16, 32, 64, 128} : HasBit(b, k)}

\* C9: ctap_hid_info reads protocol, major, minor, build and flags from the
\* engine and returns the five unchanged when the flag byte has only bits of
\* WINK | CBOR | NMSG; with any other bit set it panics and returns nothing.
C9_InfoOrPanic ==
    op = "ctap_hid_info" =>
        /\ [k \in 1..Len(calls) |-> calls[k].fn] =
              <<"fido_dev_protocol", "fido_dev_major", "fido_dev_minor",
                "fido_dev_build", "fido_dev_flags">>
        /\ IF BitsOf(device.info.flags) \subseteq {WINK, CBOR, NMSG}
           THEN ret = Ok(<<[protocol |-> device.info.protocol,
                            major |-> device.info.major,
                            minor |-> device.info.minor,
                            build |-> device.info.build,
                            capabilities |-> device.info.flags]>>)
           ELSE ret.kind = "panic" /\ ret.val = <<>>

C9_Witness ==
    /\ op = "ctap_hid_info"
    /\ BitsOf(device.info.flags) = {WINK, 2}
    /\ ret.kind = "panic"
====
